---- MODULE Spec2Model ----
(***************************************************************************)
(* Menu item store of the restaurant-menu application.                     *)
(*                                                                         *)
(* Screens of the repository that hold a collection of menu items:        *)
(*   "addMenu" : AddMenuScreen  (src/menuApp/app/addMenu.tsx, and its     *)
(*               earlier copy src/unnamed/part_003)                       *)
(*   "home"    : HomeScreen with persistence and averages                 *)
(*               (src/unnamed/part_000)                                   *)
(*   "index"   : HomeScreen that keeps its items in memory only           *)
(*               (src/menuApp/app/index.tsx, and the earlier copies       *)
(*               src/unnamed/part_001, part_002)                          *)
(*                                                                         *)
(* Text is a sequence of one-character strings, numbers are IEEE-754      *)
(* binary64 values carried as an exact 53-bit significand and a binary    *)
(* exponent, so that parseFloat, the additions and the division of        *)
(* computeAverages and toFixed(2) round as the JavaScript engine does.    *)
(***************************************************************************)
EXTENDS Integers, Sequences, FiniteSets, TLC

-----------------------------------------------------------------------------
(* Natural numbers of arbitrary size: big-endian sequences of bits.        *)

RECURSIVE BitsOfInt(_)
BitsOfInt(n) == IF n = 0 THEN << >> ELSE Append(BitsOfInt(n \div 2), n % 2)

RECURSIVE IntOfBits(_)
IntOfBits(b) ==
    IF b = << >> THEN 0
    ELSE 2 * IntOfBits(SubSeq(b, 1, Len(b) - 1)) + b[Len(b)]

\* index of the first element of t that is not in set S, Len(t) + 1 if none
FirstNotIn(t, S) ==
    IF t # << >> /\ t[1] \notin S THEN 1
    ELSE LET out == {i \in 1..Len(t) : t[i] \notin S}
         IN  IF out = {} THEN Len(t) + 1
             ELSE CHOOSE i \in out : \A j \in out : i <= j

\* index of the last element of t that is not in set S, 0 if none
LastNotIn(t, S) ==
    IF t # << >> /\ t[Len(t)] \notin S THEN Len(t)
    ELSE LET out == {i \in 1..Len(t) : t[i] \notin S}
         IN  IF out = {} THEN 0
             ELSE CHOOSE i \in out : \A j \in out : i >= j

Strip(b) == SubSeq(b, FirstNotIn(b, {0}), Len(b))

Zeros(k) == [i \in 1..k |-> 0]

Shl(b, k) == b \o Zeros(k)

PadTo(b, n) == Zeros(n - Len(b)) \o b

\* the arithmetic below works on chunks of Chunk bits at a time
Chunk == 16
Pow2Chunk == 65536

\* sum of two bit sequences of the same length, a multiple of Chunk,
\* taken chunk by chunk from the low end
RECURSIVE AddAligned(_, _, _, _)
AddAligned(a, b, hi, carry) ==
    IF hi = 0 THEN BitsOfInt(carry)
    ELSE LET t == IntOfBits(SubSeq(a, hi - Chunk + 1, hi))
                  + IntOfBits(SubSeq(b, hi - Chunk + 1, hi)) + carry
         IN  AddAligned(a, b, hi - Chunk, t \div Pow2Chunk)
                 \o PadTo(BitsOfInt(t % Pow2Chunk), Chunk)

AddBits(a, b) ==
    LET l == IF Len(a) > Len(b) THEN Len(a) ELSE Len(b)
        n == ((l + Chunk - 1) \div Chunk) * Chunk
    IN  Strip(AddAligned(PadTo(a, n), PadTo(b, n), n, 0))

\* long division of a bit sequence (length a multiple of Chunk) by a
\* positive integer d < 2^14, chunk by chunk from the high end
RECURSIVE DivAcc(_, _, _, _)
DivAcc(b, d, lo, rem) ==
    IF lo > Len(b) THEN [q |-> << >>, r |-> rem]
    ELSE LET t    == rem * Pow2Chunk + IntOfBits(SubSeq(b, lo, lo + Chunk - 1))
             rest == DivAcc(b, d, lo + Chunk, t % d)
         IN  [q |-> PadTo(BitsOfInt(t \div d), Chunk) \o rest.q, r |-> rest.r]

DivSmall(b, d) ==
    LET n  == ((Len(b) + Chunk - 1) \div Chunk) * Chunk
        dv == DivAcc(PadTo(b, n), d, 1, 0)
    IN  [q |-> Strip(dv.q), r |-> dv.r]

IsAnyOne(b) == \E i \in 1..Len(b) : b[i] = 1

RECURSIVE Pow10(_)
Pow10(k) == IF k = 0 THEN 1 ELSE 10 * Pow10(k - 1)

-----------------------------------------------------------------------------
(* binary64 numbers.  A finite number is (-1)^neg * m * 2^e with m a      *)
(* significand of exactly SigBits bits (or empty for zero).               *)

SigBits == 53

NaN    == [kind |-> "nan"]
PosInf == [kind |-> "inf", neg |-> FALSE]
NegInf == [kind |-> "inf", neg |-> TRUE]
Fin(neg, m, e) == [kind |-> "fin", neg |-> neg, m |-> m, e |-> e]
Zero   == Fin(FALSE, << >>, 0)

\* a significand of more than SigBits bits cut to SigBits bits, rounded to
\* nearest, ties to even; the result has SigBits + 1 bits when it carries
RoundUp53(q, sticky) ==
    IF /\ q[SigBits + 1] = 1
       /\ \/ sticky
          \/ IsAnyOne(SubSeq(q, SigBits + 2, Len(q)))
          \/ q[SigBits] = 1
    THEN AddBits(SubSeq(q, 1, SigBits), << 1 >>)
    ELSE SubSeq(q, 1, SigBits)

Carry53(neg, m1, e) ==
    IF Len(m1) > SigBits THEN Fin(neg, SubSeq(m1, 1, SigBits), e + 1)
    ELSE Fin(neg, m1, e)

RoundBits(neg, q, sticky, e) ==
    IF Len(q) = 0 THEN Fin(neg, << >>, 0)
    ELSE IF Len(q) <= SigBits
         THEN Fin(neg, Shl(q, SigBits - Len(q)), e - (SigBits - Len(q)))
    ELSE Carry53(neg, RoundUp53(q, sticky), e + (Len(q) - SigBits))

\* round the exact value qq * 2^e (+ a non-zero tail when sticky) to the
\* nearest number, ties to even
Round53(neg, qq, sticky, e) == RoundBits(neg, Strip(qq), sticky, e)

\* round the quotient dv.q * 2^e, with remainder dv.r, to the nearest number
RoundQuot(neg, dv, e) == Round53(neg, dv.q, dv.r # 0, e)

\* the number nearest to the decimal n / 10^k
FromDecimal(neg, n, k) ==
    RoundQuot(neg, DivSmall(Shl(BitsOfInt(n), 64 + 4 * k), Pow10(k)),
              -(64 + 4 * k))

\* x + y of the language, for operands that are not negative
NumAdd(x, y) ==
    IF x.kind = "nan" \/ y.kind = "nan" THEN NaN
    ELSE IF x.kind = "inf" THEN x
    ELSE IF y.kind = "inf" THEN y
    ELSE IF x.m = << >> THEN y
    ELSE IF y.m = << >> THEN x
    ELSE LET e == IF x.e < y.e THEN x.e ELSE y.e
         IN  Round53(FALSE, AddBits(Shl(x.m, x.e - e), Shl(y.m, y.e - e)), FALSE, e)

DivShift == 16

\* x / c of the language, for a non-negative integer c < 2^(DivShift - 3);
\* 0 / 0 is NaN and any other number over 0 is infinite
NumDivInt(x, c) ==
    IF x.kind # "fin" THEN x
    ELSE IF c = 0 THEN (IF x.m = << >> THEN NaN ELSE [kind |-> "inf", neg |-> x.neg])
    ELSE RoundQuot(x.neg, DivSmall(Shl(x.m, DivShift), c), x.e - DivShift)

IsNaN(x) == x.kind = "nan"

\* x < 0 of the language
IsNegative(x) == x.kind # "nan" /\ x.neg /\ (x.kind = "inf" \/ x.m # << >>)

\* truthiness of a number: NaN, +0 and -0 are falsy
Truthy(x) == x.kind = "inf" \/ (x.kind = "fin" /\ x.m # << >>)

-----------------------------------------------------------------------------
(* Text: sequences of one-character strings.                              *)

Digits == << "0", "1", "2", "3", "4", "5", "6", "7", "8", "9" >>

DigitSet == {Digits[i] : i \in 1..10}

DigitVal(c) == (CHOOSE i \in 1..10 : Digits[i] = c) - 1

DigitChar(n) == Digits[n + 1]

\* the white space that trim() and parseFloat() strip
WhiteSpace == {" ", "\t", "\n"}

TrimStart(t) == SubSeq(t, FirstNotIn(t, WhiteSpace), Len(t))

TrimEnd(t) == SubSeq(t, 1, LastNotIn(t, WhiteSpace))

\* String.prototype.trim
Trim(t) == TrimEnd(TrimStart(t))

StartsWith(t, p) == Len(t) >= Len(p) /\ SubSeq(t, 1, Len(p)) = p

\* length of the longest prefix of t made of digits
DigitRun(t) == FirstNotIn(t, DigitSet) - 1

RECURSIVE DecVal(_)
DecVal(d) ==
    IF d = << >> THEN 0
    ELSE 10 * DecVal(SubSeq(d, 1, Len(d) - 1)) + DigitVal(d[Len(d)])

StripZeros(d) == SubSeq(d, FirstNotIn(d, {"0"}), Len(d))

RECURSIVE DecDigits(_)
DecDigits(b) ==
    IF Strip(b) = << >> THEN << >>
    ELSE LET dv == DivSmall(b, 10)
         IN  Append(DecDigits(dv.q), DigitChar(dv.r))

\* Number.prototype.toString of a non-negative integer (Date.now().toString())
RECURSIVE IntToString(_)
IntToString(n) ==
    IF n < 10 THEN << DigitChar(n) >>
    ELSE Append(IntToString(n \div 10), DigitChar(n % 10))

TxtInfinity == << "I", "n", "f", "i", "n", "i", "t", "y" >>
TxtNaN      == << "N", "a", "N" >>

\* every decimal integer of this many digits or more is above the largest
\* finite binary64 number (1.7976931348623157e308)
MinInfDigits == 310

\* the number written by the integer digits ip and the fraction digits fp
ParseParts(neg, ip, fp) ==
    IF ip = << >> /\ fp = << >> THEN NaN
    ELSE IF Len(StripZeros(ip)) >= MinInfDigits THEN [kind |-> "inf", neg |-> neg]
    ELSE FromDecimal(neg, DecVal(ip \o fp), Len(fp))

\* ip: the integer digits; t2: the text after them
ParseFrac(neg, ip, t2) ==
    IF t2 # << >> /\ t2[1] = "."
    THEN ParseParts(neg, ip, SubSeq(Tail(t2), 1, DigitRun(Tail(t2))))
    ELSE ParseParts(neg, ip, << >>)

\* t1: the text after the sign; ni: the number of digits it starts with
ParseDigits(neg, t1, ni) ==
    ParseFrac(neg, SubSeq(t1, 1, ni), SubSeq(t1, ni + 1, Len(t1)))

ParseUnsigned(neg, t1) ==
    IF StartsWith(t1, TxtInfinity) THEN [kind |-> "inf", neg |-> neg]
    ELSE ParseDigits(neg, t1, DigitRun(t1))

ParseSigned(t0) ==
    IF t0 # << >> /\ t0[1] \in {"+", "-"}
    THEN ParseUnsigned(t0[1] = "-", Tail(t0))
    ELSE ParseUnsigned(FALSE, t0)

\* parseFloat: leading white space, sign, "Infinity" or the longest decimal
\* literal (digits, optional point, digits); anything after it is ignored.
\* Literals with an exponent part are outside the texts this model draws.
ParseFloat(text) == ParseSigned(TrimStart(text))

\* the bits P divided by 2^k, a half rounding up
RoundShift(P, k) ==
    IF k <= 0 THEN Shl(P, -k)
    ELSE IF k > Len(P) THEN << >>
    ELSE IF P[Len(P) - k + 1] = 1
         THEN AddBits(SubSeq(P, 1, Len(P) - k), << 1 >>)
         ELSE SubSeq(P, 1, Len(P) - k)

\* 100 * m
Times100(m) == AddBits(AddBits(Shl(m, 6), Shl(m, 5)), Shl(m, 2))

\* digits d, at least three of them, with a point before the last two
PointTwo(d) ==
    SubSeq(d, 1, Len(d) - 2) \o << "." >> \o SubSeq(d, Len(d) - 1, Len(d))

\* digits d padded with zeros on the left to three digits
Pad3(d) == IF Len(d) < 3 THEN [i \in 1..(3 - Len(d)) |-> "0"] \o d ELSE d

\* Number.prototype.toFixed(2) for |x| < 1e21: the integer n for which
\* n / 100 - x is closest to zero, the larger n on a tie
ToFixed2(x) ==
    IF x.kind = "nan" THEN TxtNaN
    ELSE IF x.kind = "inf" THEN (IF x.neg THEN << "-" >> ELSE << >>) \o TxtInfinity
    ELSE (IF x.neg /\ x.m # << >> THEN << "-" >> ELSE << >>)
         \o PointTwo(Pad3(DecDigits(RoundShift(Times100(x.m), -x.e))))

-----------------------------------------------------------------------------
(* Bounds and the texts the operations are called with.                   *)

MaxItems    == 2      \* longest collection a screen grows by addItem
MaxClock    == 1      \* milliseconds the clock advances during the session
MaxInFlight == 1      \* persists that may be in flight at once
MaxStored   == 1      \* longest collection the Add Menu screen finds stored
MaxHome     == 2      \* longest collection the Home screen finds stored

Screens        == {"addMenu", "home", "index"}
PersistScreens == {"addMenu", "home"}
AddScreens     == {"addMenu", "index"}
Categories     == << "Starter", "Main", "Desert" >>
CategorySet    == {Categories[i] : i \in 1..3}

TxtEmpty    == << >>
TxtBlank    == << " " >>
TxtSteak    == << "S", "t", "e", "a", "k" >>
TxtSoupPad  == << " ", "S", "o", "u", "p", " " >>
TxtGrilled  == << "G", "r", "i", "l", "l", "e", "d" >>
TxtSoup     == << "S", "o", "u", "p" >>
TxtHotSoup  == << "H", "o", "t", " ", "s", "o", "u", "p" >>
TxtQuoted   == << "a", "\"", "b", "\\" >>
TxtLines    == << "x", "\n", "y" >>
Txt120      == << "1", "2", "0" >>
Txt30       == << "3", "0" >>
Txt003      == << "0", ".", "0", "3" >>
Txt1005     == << "1", ".", "0", "0", "5" >>
TxtMinus5   == << "-", "5" >>
TxtAbc      == << "a", "b", "c" >>
TxtDot      == << "." >>
TxtManyNines == [i \in 1..MinInfDigits |-> "9"]

Form(c, n, d, p) == [category |-> c, dishName |-> n, description |-> d, price |-> p]

\* forms that pass validation as the specification states it
ValidForms ==
    {Form("Starter", TxtSoupPad, TxtGrilled, Txt30)}

\* forms with a price that is not finite
InfiniteForms ==
    {Form("Main", TxtSoupPad, TxtGrilled, p) : p \in {TxtInfinity, TxtManyNines}}

\* forms with a field that is empty or white space only
BlankForms ==
    {Form("Main", TxtBlank, TxtGrilled, Txt30),
     Form("Main", TxtSoupPad, TxtEmpty, Txt30),
     Form("Main", TxtEmpty, TxtGrilled, TxtAbc)}
    \cup {Form("Main", TxtSoupPad, TxtGrilled, p) : p \in {TxtEmpty, TxtBlank}}

\* forms with a price that is negative or not a number
BadPriceForms ==
    {Form("Main", TxtSoupPad, TxtGrilled, p) : p \in {TxtMinus5, TxtAbc}}

\* the two calls of the end-to-end scenario, and a form whose texts hold
\* characters that JSON escapes
SteakForm  == Form("Main", TxtSteak, TxtGrilled, Txt120)
SoupForm   == Form("Main", TxtSoup, TxtHotSoup, Txt30)
QuotedForm == Form("Desert", TxtQuoted, TxtLines, Txt003)
AppForms   == {SteakForm, SoupForm, QuotedForm}

Forms == ValidForms \cup InfiniteForms \cup BlankForms \cup BadPriceForms

Prices == {f.price : f \in Forms} \cup {Txt120, Txt003, Txt1005, TxtDot}

\* parseFloat and toFixed(2) of the price texts, evaluated once
ParsedPrice == [p \in Prices |-> ParseFloat(p)]
FixedPrice  == [p \in Prices |-> ToFixed2(ParsedPrice[p])]

\* Date.now() when the session starts: later than every stored item's id
StartClock == MaxStored + MaxHome

Ids == {IntToString(t) : t \in 0..(StartClock + MaxClock)}

-----------------------------------------------------------------------------
(* JSON.stringify and JSON.parse on the texts the store keeps.  A text is  *)
(* a sequence of characters; the texts of the model hold no character that *)
(* JSON writes as a \u or \b escape.                                       *)

Quote     == "\""
Backslash == "\\"

\* the characters JSON.stringify writes as a two-character escape
Escaped ==
    (Quote :> Quote) @@ (Backslash :> Backslash) @@ ("\n" :> "n")
        @@ ("\t" :> "t") @@ ("\r" :> "r") @@ ("\f" :> "f")

\* the characters JSON.parse reads after a backslash
Unescape ==
    (Quote :> Quote) @@ (Backslash :> Backslash) @@ ("/" :> "/")
        @@ ("n" :> "\n") @@ ("t" :> "\t") @@ ("r" :> "\r") @@ ("f" :> "\f")

ControlChars == {"\n", "\t", "\r", "\f"}
JSONSpace    == {" ", "\n", "\t", "\r"}

\* the text between quotes with every character written as it is
RECURSIVE QuoteCharsPlain(_, _, _)
QuoteCharsPlain(t, p, acc) ==
    IF p > Len(t) THEN Append(acc, Quote)
    ELSE QuoteCharsPlain(t, p + 1, Append(acc, t[p]))

\* QuoteJSONString: the text between quotes, escapes written
RECURSIVE QuoteChars(_, _, _)
QuoteChars(t, p, acc) ==
    IF p > Len(t) THEN Append(acc, Quote)
    ELSE IF t[p] \in DOMAIN Escaped
         THEN QuoteChars(t, p + 1, acc \o << Backslash, Escaped[t[p]] >>)
         ELSE QuoteChars(t, p + 1, Append(acc, t[p]))

QuoteText(t) == QuoteChars(t, 1, << Quote >>)

TxtId          == << "i", "d" >>
TxtCategory    == << "c", "a", "t", "e", "g", "o", "r", "y" >>
TxtDishName    == << "d", "i", "s", "h", "N", "a", "m", "e" >>
TxtDescription == << "d", "e", "s", "c", "r", "i", "p", "t", "i", "o", "n" >>
TxtPrice       == << "p", "r", "i", "c", "e" >>

\* the characters of the category names
CategoryText ==
    ("Starter" :> << "S", "t", "a", "r", "t", "e", "r" >>)
        @@ ("Main" :> << "M", "a", "i", "n" >>)
        @@ ("Desert" :> << "D", "e", "s", "e", "r", "t" >>)

\* a member "key":"value" of an object
MemberText(key, value) == QuoteText(key) \o << ":" >> \o QuoteText(value)

\* what reading a property that is missing, or no text, gives
Undefined == << "undefined" >>

\* the properties of an item, in the order they were created
MembersOf(it) ==
    << << TxtId, it.id >>,
       << TxtCategory, IF it.category \in DOMAIN CategoryText
                       THEN CategoryText[it.category] ELSE Undefined >>,
       << TxtDishName, it.dishName >>,
       << TxtDescription, it.description >>,
       << TxtPrice, it.price >> >>

RECURSIVE JoinMembers(_, _, _)
JoinMembers(ms, i, acc) ==
    IF i > Len(ms) THEN Append(acc, "}")
    ELSE JoinMembers(ms, i + 1,
                     (IF i = 1 THEN acc ELSE Append(acc, ","))
                         \o MemberText(ms[i][1], ms[i][2]))

\* an item as JSON.stringify writes it: its properties that are not
\* undefined
ItemText(it) ==
    JoinMembers(SelectSeq(MembersOf(it), LAMBDA m : m[2] # Undefined), 1, << "{" >>)

RECURSIVE ArrayText(_, _, _)
ArrayText(items, i, acc) ==
    IF i > Len(items) THEN Append(acc, "]")
    ELSE ArrayText(items, i + 1,
                   (IF i = 1 THEN acc ELSE Append(acc, ",")) \o ItemText(items[i]))

\* JSON.stringify(items)
JSONStringify(items) == ArrayText(items, 1, << "[" >>)

\* a parsed value: its type t, its text s (string, number) and its parts a
\* (the elements of an array, the members of an object)
JVal(t, s, a) == [t |-> t, s |-> s, a |-> a]

\* the outcome of reading a value: the value and the position after it, or
\* a SyntaxError
JFail     == [ok |-> FALSE, v |-> JVal("null", << >>, << >>), p |-> 0]
JOk(v, p) == [ok |-> TRUE, v |-> v, p |-> p]

RECURSIVE SkipWs(_, _)
SkipWs(t, p) ==
    IF p <= Len(t) /\ t[p] \in JSONSpace THEN SkipWs(t, p + 1) ELSE p

RECURSIVE DigitEnd(_, _)
DigitEnd(t, p) ==
    IF p <= Len(t) /\ t[p] \in DigitSet THEN DigitEnd(t, p + 1) ELSE p

\* the position after the parts of a number, 0 when the number is malformed
NumInt(t, p) ==
    IF p > Len(t) \/ t[p] \notin DigitSet THEN 0
    ELSE IF t[p] = "0" THEN p + 1 ELSE DigitEnd(t, p + 1)

NumFrac(t, p) ==
    IF p = 0 THEN 0
    ELSE IF p <= Len(t) /\ t[p] = "."
         THEN IF p + 1 <= Len(t) /\ t[p + 1] \in DigitSet
              THEN DigitEnd(t, p + 2) ELSE 0
         ELSE p

ExpDigits(t, p) ==
    IF p <= Len(t) /\ t[p] \in DigitSet THEN DigitEnd(t, p + 1) ELSE 0

NumExp(t, p) ==
    IF p = 0 THEN 0
    ELSE IF p <= Len(t) /\ t[p] \in {"e", "E"}
         THEN ExpDigits(t, IF p + 1 <= Len(t) /\ t[p + 1] \in {"+", "-"}
                           THEN p + 2 ELSE p + 1)
         ELSE p

NumberResult(t, p, q) ==
    IF q = 0 THEN JFail ELSE JOk(JVal("number", SubSeq(t, p, q - 1), << >>), q)

ParseNumber(t, p) ==
    NumberResult(t, p, NumExp(t, NumFrac(t, NumInt(t, IF t[p] = "-" THEN p + 1 ELSE p))))

ParseLiteral(t, p, word, type) ==
    IF p + Len(word) - 1 <= Len(t) /\ SubSeq(t, p, p + Len(word) - 1) = word
    THEN JOk(JVal(type, << >>, << >>), p + Len(word))
    ELSE JFail

RECURSIVE ParseString(_, _, _)
RECURSIVE ParseEscape(_, _, _)
RECURSIVE ParseValueAt(_, _)
RECURSIVE ParseElements(_, _, _)
RECURSIVE ParseMembers(_, _, _)

\* the characters of a string, from the one after its opening quote
ParseString(t, p, acc) ==
    IF p > Len(t) THEN JFail
    ELSE IF t[p] = Quote THEN JOk(JVal("string", acc, << >>), p + 1)
    ELSE IF t[p] = Backslash THEN ParseEscape(t, p + 1, acc)
    ELSE IF t[p] \in ControlChars THEN JFail
    ELSE ParseString(t, p + 1, Append(acc, t[p]))

ParseEscape(t, p, acc) ==
    IF p > Len(t) \/ t[p] \notin DOMAIN Unescape THEN JFail
    ELSE ParseString(t, p + 1, Append(acc, Unescape[t[p]]))

ParseValue(t, p) == ParseValueAt(t, SkipWs(t, p))

\* after an element: a comma and the next element, or the closing bracket
ElementSep(t, p, acc) ==
    IF p > Len(t) THEN JFail
    ELSE IF t[p] = "," THEN ParseElements(t, SkipWs(t, p + 1), acc)
    ELSE IF t[p] = "]" THEN JOk(JVal("array", << >>, acc), p + 1)
    ELSE JFail

AfterElement(t, r, acc) ==
    IF ~r.ok THEN JFail ELSE ElementSep(t, SkipWs(t, r.p), Append(acc, r.v))

ParseElements(t, p, acc) == AfterElement(t, ParseValueAt(t, p), acc)

ParseArrayOpen(t, p) ==
    IF p > Len(t) THEN JFail
    ELSE IF t[p] = "]" THEN JOk(JVal("array", << >>, << >>), p + 1)
    ELSE ParseElements(t, p, << >>)

\* after a member: a comma and the next member, or the closing brace
MemberSep(t, p, acc) ==
    IF p > Len(t) THEN JFail
    ELSE IF t[p] = "," THEN ParseMembers(t, SkipWs(t, p + 1), acc)
    ELSE IF t[p] = "}" THEN JOk(JVal("object", << >>, acc), p + 1)
    ELSE JFail

AfterMember(t, r, key, acc) ==
    IF ~r.ok THEN JFail
    ELSE MemberSep(t, SkipWs(t, r.p), Append(acc, JVal("member", key, << r.v >>)))

KeyColon(t, p, key, acc) ==
    IF p > Len(t) \/ t[p] # ":" THEN JFail
    ELSE AfterMember(t, ParseValue(t, p + 1), key, acc)

AfterKey(t, k, acc) ==
    IF ~k.ok THEN JFail ELSE KeyColon(t, SkipWs(t, k.p), k.v.s, acc)

ParseMembers(t, p, acc) ==
    IF p > Len(t) \/ t[p] # Quote THEN JFail
    ELSE AfterKey(t, ParseString(t, p + 1, << >>), acc)

ParseObjectOpen(t, p) ==
    IF p > Len(t) THEN JFail
    ELSE IF t[p] = "}" THEN JOk(JVal("object", << >>, << >>), p + 1)
    ELSE ParseMembers(t, p, << >>)

ParseValueAt(t, p) ==
    IF p > Len(t) THEN JFail
    ELSE IF t[p] = Quote THEN ParseString(t, p + 1, << >>)
    ELSE IF t[p] = "[" THEN ParseArrayOpen(t, SkipWs(t, p + 1))
    ELSE IF t[p] = "{" THEN ParseObjectOpen(t, SkipWs(t, p + 1))
    ELSE IF t[p] = "-" \/ t[p] \in DigitSet THEN ParseNumber(t, p)
    ELSE IF t[p] = "t" THEN ParseLiteral(t, p, << "t", "r", "u", "e" >>, "true")
    ELSE IF t[p] = "f" THEN ParseLiteral(t, p, << "f", "a", "l", "s", "e" >>, "false")
    ELSE IF t[p] = "n" THEN ParseLiteral(t, p, << "n", "u", "l", "l" >>, "null")
    ELSE JFail

\* the whole text is one value
WholeText(t, r) ==
    IF r.ok /\ SkipWs(t, r.p) = Len(t) + 1 THEN r ELSE JFail

\* JSON.parse(text): ok and the value, or a SyntaxError
ParseJSON(t) == WholeText(t, ParseValue(t, 1))

\* obj[key]: the value of the last member of the object with the key
RECURSIVE MemberValue(_, _, _)
MemberValue(members, key, i) ==
    IF i = 0 THEN Undefined
    ELSE IF members[i].s = key
         THEN IF members[i].a[1].t = "string" THEN members[i].a[1].s ELSE Undefined
         ELSE MemberValue(members, key, i - 1)

\* the property of an element of the parsed array (the elements of the
\* arrays of the model are objects or null)
Property(v, key) ==
    IF v.t = "object" THEN MemberValue(v.a, key, Len(v.a)) ELSE Undefined

\* the category name written by the text, if it is one
CategoryOf(t) ==
    IF \E c \in DOMAIN CategoryText : CategoryText[c] = t
    THEN CHOOSE c \in DOMAIN CategoryText : CategoryText[c] = t
    ELSE "undefined"

\* the items of a parsed array, as the screens read them
ItemsOf(v) ==
    [i \in 1..Len(v.a) |->
        [id          |-> Property(v.a[i], TxtId),
         category    |-> CategoryOf(Property(v.a[i], TxtCategory)),
         dishName    |-> Property(v.a[i], TxtDishName),
         description |-> Property(v.a[i], TxtDescription),
         price       |-> Property(v.a[i], TxtPrice)]]

\* menuItems.filter(item => item.category === ...) runs: the value is an
\* array and none of its elements is null
Filterable(v) ==
    v.t = "array" /\ \A i \in 1..Len(v.a) : v.a[i].t # "null"

-----------------------------------------------------------------------------
(* State.                                                                  *)

VARIABLES
    menuItems,   \* menuItems[s]: the collection held by screen s
    error,       \* error[s]: the validation message shown on screen s
    mounted,     \* mounted[s]: screen s is mounted
    load,        \* load[s]: the getItem started when s mounted and what it read
    storage,     \* the blob stored under STORAGE_KEY, or NoBlob
    writes,      \* the setItem calls in flight
    persisted,   \* how the setItem issued last has ended, if it has
    clock,       \* Date.now()
    averages,    \* the averages the Home screen rendered last
    thrown,      \* thrown[s]: the render of s threw, menuItems[s] is no array
    last         \* the last handler or callback run and the length before it

vars == << menuItems, error, mounted, load, storage, writes, persisted, clock,
           averages, thrown, last >>

STORAGE_KEY == "@menu_items"

NoBlob == [key |-> STORAGE_KEY, present |-> FALSE]

\* a getItem that is not started, in flight with the blob it read, or settled
LoadIdle       == [st |-> "idle", raw |-> NoBlob]
LoadPending(b) == [st |-> "pending", raw |-> b]
LoadDone       == [st |-> "done", raw |-> NoBlob]

NoError       == "none"
MissingFields == "MissingFields"
InvalidPrice  == "InvalidPrice"

\* the value saveItems hands to AsyncStorage.setItem
Stringify(items) ==
    [key |-> STORAGE_KEY, present |-> TRUE, json |-> JSONStringify(items)]

\* a filter that keeps the items of the other categories
RECURSIVE FilterOtherCategories(_, _)
FilterOtherCategories(items, c) ==
    IF items = << >> THEN << >>
    ELSE IF Head(items).category # c
         THEN << Head(items) >> \o FilterOtherCategories(Tail(items), c)
         ELSE FilterOtherCategories(Tail(items), c)

\* Array.prototype.filter with the predicate item.category === c
RECURSIVE FilterCategory(_, _)
FilterCategory(items, c) ==
    IF items = << >> THEN << >>
    ELSE IF Head(items).category = c
         THEN << Head(items) >> \o FilterCategory(Tail(items), c)
         ELSE FilterCategory(Tail(items), c)

\* a filter that keeps the items with the id
RECURSIVE FilterOnlyId(_, _)
FilterOnlyId(items, id) ==
    IF items = << >> THEN << >>
    ELSE IF Head(items).id = id
         THEN << Head(items) >> \o FilterOnlyId(Tail(items), id)
         ELSE FilterOnlyId(Tail(items), id)

\* Array.prototype.filter with the predicate item.id !== id
RECURSIVE FilterNotId(_, _)
FilterNotId(items, id) ==
    IF items = << >> THEN << >>
    ELSE IF Head(items).id # id
         THEN << Head(items) >> \o FilterNotId(Tail(items), id)
         ELSE FilterNotId(Tail(items), id)

\* the list screen s renders while category c is selected
filteredItems(s, c) == FilterCategory(menuItems[s], c)

-----------------------------------------------------------------------------
(* computeAverages of the Home screen.                                     *)

EmDash == << "em-dash" >>      \* the one-character text shown for no data

\* the price texts whose parseFloat is evaluated once
AvgPrices ==
    { << "0", ".", "0", "0" >>, << "0", ".", "0", "3" >>,
      << "3", "0", ".", "0", "0" >>, << "1", "2", "0", ".", "0", "0" >> }
KnownPrices == {FixedPrice[p] : p \in Prices} \cup AvgPrices
ParsedKnown == [t \in KnownPrices |-> ParseFloat(t)]

\* parseFloat(it.price)
PriceValue(t) == IF t \in DOMAIN ParsedKnown THEN ParsedKnown[t] ELSE ParseFloat(t)

\* v || 0
OrZero(v) == IF Truthy(v) THEN v ELSE Zero

\* items.reduce((s, it) => s + (parseFloat(it.price) || 0), 0), on the
\* price texts of the items
RECURSIVE SumPrices(_, _)
SumPrices(prices, acc) ==
    IF prices = << >> THEN acc
    ELSE SumPrices(Tail(prices), NumAdd(acc, OrZero(PriceValue(Head(prices)))))

\* (sum / items.length).toFixed(2)
AverageOf(prices) == ToFixed2(NumDivInt(SumPrices(prices, Zero), Len(prices)))

\* the averages of the price lists the Home screen starts from, evaluated
\* once: pairs << prices, average >>
AvgKnown ==
    {<< ps, AverageOf(ps) >> : ps \in UNION {[1..n -> AvgPrices] : n \in 0..MaxHome}}

AverageText(prices) ==
    IF \E pr \in AvgKnown : pr[1] = prices
    THEN (CHOOSE pr \in AvgKnown : pr[1] = prices)[2]
    ELSE AverageOf(prices)

PricesOf(items) == [i \in 1..Len(items) |-> items[i].price]

\* computeAverages without the test for an empty category
computeAveragesUnguarded(all) ==
    [cat \in CategorySet |->
        << "R" >> \o AverageText(PricesOf(FilterCategory(all, cat)))]

computeAverages(all) ==
    [cat \in CategorySet |->
        IF Len(FilterCategory(all, cat)) = 0 THEN EmDash
        ELSE << "R" >> \o AverageText(PricesOf(FilterCategory(all, cat)))]

\* the averages the Home screen renders from the collections mi
Rendered(mi) == computeAverages(mi["home"])

-----------------------------------------------------------------------------
(* Operations.                                                             *)

\* the form of the last call of addItem, when the last step was none
NoForm == Form("none", << >>, << >>, << >>)

NoLast == [op |-> "none", screen |-> "none", id |-> << >>, n |-> 0,
           form |-> NoForm]

NewItem(id, cat, name, desc, price) ==
    [id |-> id, category |-> cat, dishName |-> name, description |-> desc,
     price |-> price]

\* an item an earlier session of the Add Menu screen stored: a trimmed
\* name and description, a two-decimal price, the clock reading as id
StoredItem(i, c, p) == NewItem(IntToString(i - 1), c, Trim(TxtSoupPad), TxtGrilled, p)

\* the collections of at most max such items
StoredCollections(cats, prices, max) ==
    UNION { { [i \in 1..n |-> StoredItem(i, cs[i], ps[i])] :
                cs \in [1..n -> cats], ps \in [1..n -> prices] } :
            n \in 0..max }

\* the state in which screen s0 has just mounted, on one of the blobs
InitScreen(s0, blobs) ==
    /\ menuItems = [s \in Screens |-> << >>]
    /\ error     = [s \in Screens |-> NoError]
    /\ mounted   = [s \in Screens |-> s = s0]
    /\ storage   \in blobs
    /\ load      = [s \in Screens |->
                       IF s = s0 /\ s \in PersistScreens
                       THEN LoadPending(storage) ELSE LoadIdle]
    /\ writes    = << >>
    /\ persisted = "none"
    /\ clock     = StartClock
    /\ averages  = Rendered(menuItems)
    /\ thrown    = [s \in Screens |-> FALSE]
    /\ last      = NoLast

\* the Add Menu screen opens on an empty store or on what an earlier session
\* left there
Init ==
    InitScreen("addMenu",
               {NoBlob} \cup {Stringify(c) :
                   c \in StoredCollections({"Starter", "Main"}, {FixedPrice[Txt30]},
                                          MaxStored)})


\* saveItems(items): AsyncStorage.setItem is called and is now in flight
SaveItems(s, items) ==
    /\ writes' = Append(writes, [by |-> s, payload |-> Stringify(items)])
    /\ persisted' = "pending"

\* the screen is pushed: it mounts with its initial state and its effect
\* starts the load
Mount(s) ==
    /\ ~mounted[s]
    /\ mounted'   = [mounted EXCEPT ![s] = TRUE]
    /\ menuItems' = [menuItems EXCEPT ![s] = << >>]
    /\ error'     = [error EXCEPT ![s] = NoError]
    /\ load'      = [load EXCEPT ![s] = LoadPending(storage)]
    /\ thrown'    = [thrown EXCEPT ![s] = FALSE]
    /\ averages'  = IF s = "home" THEN Rendered(menuItems') ELSE averages
    /\ last'      = [NoLast EXCEPT !.op = "mount", !.screen = s]
    /\ UNCHANGED << storage, writes, persisted, clock >>

\* the screen is popped: its state is dropped, the persists it started stay
\* in flight
Unmount(s) ==
    /\ mounted[s]
    /\ mounted'   = [mounted EXCEPT ![s] = FALSE]
    /\ menuItems' = [menuItems EXCEPT ![s] = << >>]
    /\ error'     = [error EXCEPT ![s] = NoError]
    /\ load'      = [load EXCEPT ![s] = LoadIdle]
    /\ thrown'    = [thrown EXCEPT ![s] = FALSE]
    /\ averages'  = IF s = "home" THEN Rendered(menuItems') ELSE averages
    /\ last'      = [NoLast EXCEPT !.op = "unmount", !.screen = s]
    /\ UNCHANGED << storage, writes, persisted, clock >>

\* a load whose SyntaxError reaches the render of the screen
SetParsedRethrow(s, r) ==
    /\ menuItems' =
           IF r.ok /\ Filterable(r.v) THEN [menuItems EXCEPT ![s] = ItemsOf(r.v)]
           ELSE [menuItems EXCEPT ![s] = << >>]
    /\ thrown' = IF r.ok /\ Filterable(r.v)
                 THEN thrown ELSE [thrown EXCEPT ![s] = TRUE]

\* setMenuItems(JSON.parse(raw)): a SyntaxError is caught and logged; a
\* parsed value becomes the state, and the render that follows filters it
SetParsed(s, r) ==
    /\ menuItems' =
           IF ~r.ok THEN menuItems
           ELSE [menuItems EXCEPT ![s] = IF Filterable(r.v) THEN ItemsOf(r.v)
                                         ELSE << >>]
    /\ thrown' = IF r.ok /\ ~Filterable(r.v)
                 THEN [thrown EXCEPT ![s] = TRUE] ELSE thrown

\* load / loadItems: AsyncStorage.getItem resolves with the blob that was
\* stored when it was called; if (raw) setMenuItems(JSON.parse(raw))
LoadItems(s) ==
    /\ mounted[s] /\ load[s].st = "pending"
    /\ IF load[s].raw.present /\ load[s].raw.json # << >>
       THEN SetParsed(s, ParseJSON(load[s].raw.json))
       ELSE UNCHANGED << menuItems, thrown >>
    /\ load'     = [load EXCEPT ![s] = LoadDone]
    /\ averages' = IF thrown'["home"] THEN averages ELSE Rendered(menuItems')
    /\ last'     = [NoLast EXCEPT !.op = "load", !.screen = s]
    /\ UNCHANGED << error, mounted, storage, writes, persisted, clock >>

\* AsyncStorage.getItem rejects: caught, a warning is logged
LoadFail(s) ==
    /\ mounted[s] /\ load[s].st = "pending"
    /\ load' = [load EXCEPT ![s] = LoadDone]
    /\ last' = [NoLast EXCEPT !.op = "loadFail", !.screen = s]
    /\ UNCHANGED << menuItems, error, mounted, storage, writes, persisted,
                    clock, averages,
                    thrown >>

\* addItem that checks the price only after it has appended and saved
AddMenu_addItemLateCheck(category, dishName, description, price) ==
    LET s       == "addMenu"
        parsed  == ParsedPrice[price]
        newItem == NewItem(IntToString(clock), category, Trim(dishName),
                           Trim(description), FixedPrice[price])
        next    == Append(menuItems[s], newItem)
        bad     == IsNaN(parsed) \/ IsNegative(parsed)
    IN  /\ mounted[s] /\ ~thrown[s]
        /\ IF Trim(dishName) = << >> \/ Trim(description) = << >> \/ Trim(price) = << >>
           THEN /\ error' = [error EXCEPT ![s] = MissingFields]
                /\ last'  = [op |-> "addItem", screen |-> s, id |-> << >>,
                             n |-> Len(menuItems[s]),
                             form |-> Form(category, dishName, description, price)]
                /\ UNCHANGED << menuItems, writes, persisted >>
           ELSE /\ Len(menuItems[s]) < MaxItems
                /\ Len(writes) < MaxInFlight
                /\ menuItems' = [menuItems EXCEPT ![s] = next]
                /\ SaveItems(s, next)
                /\ error' = [error EXCEPT ![s] = IF bad THEN InvalidPrice ELSE NoError]
                /\ last'  = [op |-> "addItem", screen |-> s, id |-> newItem.id,
                             n |-> Len(menuItems[s]),
                             form |-> Form(category, dishName, description, price)]
        /\ UNCHANGED << mounted, load, storage, clock, averages, thrown >>

\* addItem that checks the price before it looks for missing fields
AddMenu_addItemPriceFirst(category, dishName, description, price) ==
    LET s       == "addMenu"
        parsed  == ParsedPrice[price]
        newItem == NewItem(IntToString(clock), category, Trim(dishName),
                           Trim(description), FixedPrice[price])
        next    == Append(menuItems[s], newItem)
    IN  /\ mounted[s] /\ ~thrown[s]
        /\ IF IsNaN(parsed) \/ IsNegative(parsed)
           THEN /\ error' = [error EXCEPT ![s] = InvalidPrice]
                /\ last'  = [op |-> "addItem", screen |-> s, id |-> << >>,
                             n |-> Len(menuItems[s]),
                             form |-> Form(category, dishName, description, price)]
                /\ UNCHANGED << menuItems, writes, persisted >>
           ELSE IF Trim(dishName) = << >> \/ Trim(description) = << >> \/ Trim(price) = << >>
           THEN /\ error' = [error EXCEPT ![s] = MissingFields]
                /\ last'  = [op |-> "addItem", screen |-> s, id |-> << >>,
                             n |-> Len(menuItems[s]),
                             form |-> Form(category, dishName, description, price)]
                /\ UNCHANGED << menuItems, writes, persisted >>
           ELSE /\ Len(menuItems[s]) < MaxItems
                /\ Len(writes) < MaxInFlight
                /\ menuItems' = [menuItems EXCEPT ![s] = next]
                /\ SaveItems(s, next)
                /\ error' = [error EXCEPT ![s] = NoError]
                /\ last'  = [op |-> "addItem", screen |-> s, id |-> newItem.id,
                             n |-> Len(menuItems[s]),
                             form |-> Form(category, dishName, description, price)]
        /\ UNCHANGED << mounted, load, storage, clock, averages, thrown >>

\* addItem of the Add Menu screen, called with the form holding
\* category, dishName, description and price
AddMenu_addItem(category, dishName, description, price) ==
    LET s       == "addMenu"
        parsed  == ParsedPrice[price]
        newItem == NewItem(IntToString(clock), category, Trim(dishName),
                           Trim(description), FixedPrice[price])
        next    == Append(menuItems[s], newItem)
    IN  /\ mounted[s] /\ ~thrown[s]
        /\ IF Trim(dishName) = << >> \/ Trim(description) = << >> \/ Trim(price) = << >>
           THEN /\ error' = [error EXCEPT ![s] = MissingFields]
                /\ last'  = [op |-> "addItem", screen |-> s, id |-> << >>,
                             n |-> Len(menuItems[s]),
                             form |-> Form(category, dishName, description, price)]
                /\ UNCHANGED << menuItems, writes, persisted >>
           ELSE IF IsNaN(parsed) \/ IsNegative(parsed)
           THEN /\ error' = [error EXCEPT ![s] = InvalidPrice]
                /\ last'  = [op |-> "addItem", screen |-> s, id |-> << >>,
                             n |-> Len(menuItems[s]),
                             form |-> Form(category, dishName, description, price)]
                /\ UNCHANGED << menuItems, writes, persisted >>
           ELSE /\ Len(menuItems[s]) < MaxItems
                /\ Len(writes) < MaxInFlight
                /\ menuItems' = [menuItems EXCEPT ![s] = next]
                /\ SaveItems(s, next)
                /\ error' = [error EXCEPT ![s] = NoError]
                /\ last'  = [op |-> "addItem", screen |-> s, id |-> newItem.id,
                             n |-> Len(menuItems[s]),
                             form |-> Form(category, dishName, description, price)]
        /\ UNCHANGED << mounted, load, storage, clock, averages, thrown >>

\* addItem of the Home screen that keeps its items in memory only
Index_addItem(category, dishName, description, price) ==
    LET s       == "index"
        newItem == NewItem(IntToString(clock), category, dishName,
                           description, FixedPrice[price])
    IN  /\ mounted[s]
        /\ IF dishName = << >> \/ description = << >> \/ price = << >>
           THEN /\ error' = [error EXCEPT ![s] = MissingFields]
                /\ last'  = [op |-> "addItem", screen |-> s, id |-> << >>,
                             n |-> Len(menuItems[s]),
                             form |-> Form(category, dishName, description, price)]
                /\ UNCHANGED menuItems
           ELSE /\ Len(menuItems[s]) < MaxItems
                /\ menuItems' = [menuItems EXCEPT ![s] = Append(menuItems[s], newItem)]
                /\ error' = [error EXCEPT ![s] = NoError]
                /\ last'  = [op |-> "addItem", screen |-> s, id |-> newItem.id,
                             n |-> Len(menuItems[s]),
                             form |-> Form(category, dishName, description, price)]
        /\ UNCHANGED << mounted, load, storage, writes, persisted, clock,
                        averages, thrown >>

\* removeItem of the Add Menu screen and of the persisted Home screen
removeItem(s, id) ==
    LET next == FilterNotId(menuItems[s], id)
    IN  /\ s \in PersistScreens /\ mounted[s] /\ ~thrown[s]
        /\ Len(writes) < MaxInFlight
        /\ menuItems' = [menuItems EXCEPT ![s] = next]
        /\ SaveItems(s, next)
        /\ averages'  = Rendered(menuItems')
        /\ last' = [op |-> "removeItem", screen |-> s, id |-> id,
                    n |-> Len(menuItems[s]), form |-> NoForm]
        /\ UNCHANGED << error, mounted, load, storage, clock, thrown >>

\* removeItem of the Home screen that keeps its items in memory only
Index_removeItem(id) ==
    LET s == "index"
    IN  /\ mounted[s]
        /\ menuItems' = [menuItems EXCEPT ![s] = FilterNotId(menuItems[s], id)]
        /\ last' = [op |-> "removeItem", screen |-> s, id |-> id,
                    n |-> Len(menuItems[s]), form |-> NoForm]
        /\ UNCHANGED << error, mounted, load, storage, writes, persisted,
                        clock, averages, thrown >>

RemoveAt(q, i) == SubSeq(q, 1, i - 1) \o SubSeq(q, i + 1, Len(q))

\* a setItem in flight resolves: the store now holds its payload
WriteDone(i) ==
    /\ i \in 1..Len(writes)
    /\ storage'   = writes[i].payload
    /\ writes'    = RemoveAt(writes, i)
    /\ persisted' = IF i = Len(writes) THEN "ok" ELSE persisted
    /\ last'      = NoLast
    /\ UNCHANGED << menuItems, error, mounted, load, clock, averages, thrown >>

\* a setItem in flight rejects and the store keeps what it held
WriteFailRethrow(i) ==
    /\ i \in 1..Len(writes)
    /\ writes'    = RemoveAt(writes, i)
    /\ persisted' = IF i = Len(writes) THEN "failed" ELSE persisted
    /\ thrown'    = [thrown EXCEPT ![writes[i].by] = TRUE]
    /\ last'      = NoLast
    /\ UNCHANGED << menuItems, error, mounted, load, storage, clock, averages >>

\* a setItem in flight rejects: caught by saveItems, a warning is logged
WriteFail(i) ==
    /\ i \in 1..Len(writes)
    /\ writes'    = RemoveAt(writes, i)
    /\ persisted' = IF i = Len(writes) THEN "failed" ELSE persisted
    /\ last'      = NoLast
    /\ UNCHANGED << menuItems, error, mounted, load, storage, clock, averages,
                    thrown >>

\* the millisecond clock advances
Tick ==
    /\ clock < StartClock + MaxClock
    /\ clock' = clock + 1
    /\ last'  = NoLast
    /\ UNCHANGED << menuItems, error, mounted, load, storage, writes,
                    persisted, averages, thrown >>

\* the Add Menu screen and the store it persists to
Next ==
    \/ LoadItems("addMenu")
    \/ LoadFail("addMenu")
    \/ \E f \in Forms :
           AddMenu_addItem(f.category, f.dishName, f.description, f.price)
    \/ \E id \in Ids : removeItem("addMenu", id)
    \/ \E i \in 1..MaxInFlight : WriteDone(i)
    \/ \E i \in 1..MaxInFlight : WriteFail(i)
    \/ Tick

Spec == Init /\ [][Next]_vars

-----------------------------------------------------------------------------
(* The Add Menu screen after its load has settled, on any collection it    *)
(* can have restored: the calls of addItem and the persists they start.    *)

InitAdd ==
    /\ \E c \in StoredCollections({"Starter", "Main"}, {FixedPrice[Txt30]}, MaxStored) :
          /\ menuItems = [s \in Screens |-> IF s = "addMenu" THEN c ELSE << >>]
          /\ storage   = Stringify(c)
    /\ error     = [s \in Screens |-> NoError]
    /\ mounted   = [s \in Screens |-> s = "addMenu"]
    /\ load      = [s \in Screens |-> IF s = "addMenu" THEN LoadDone ELSE LoadIdle]
    /\ writes    = << >>
    /\ persisted = "none"
    /\ clock     = StartClock
    /\ averages  = Rendered(menuItems)
    /\ thrown    = [s \in Screens |-> FALSE]
    /\ last      = NoLast

NextAdd ==
    \/ \E f \in Forms :
           AddMenu_addItem(f.category, f.dishName, f.description, f.price)
    \/ \E i \in 1..MaxInFlight : WriteDone(i)
    \/ \E i \in 1..MaxInFlight : WriteFail(i)
    \/ Tick

SpecAdd == InitAdd /\ [][NextAdd]_vars

-----------------------------------------------------------------------------
(* The Add Menu screen after its load has settled, within one millisecond: *)
(* its mutations, and the persists they start completing or failing.       *)

NextWrite ==
    \/ \E f \in ValidForms :
           AddMenu_addItem(f.category, f.dishName, f.description, f.price)
    \/ \E id \in Ids : removeItem("addMenu", id)
    \/ \E i \in 1..MaxInFlight : WriteDone(i)
    \/ \E i \in 1..MaxInFlight : WriteFail(i)

SpecWrite == InitAdd /\ [][NextWrite]_vars

-----------------------------------------------------------------------------
(* The Home screen that keeps its items in memory only.                    *)

InitIndex == InitScreen("index", {NoBlob})

NextIndex ==
    \/ \E f \in Forms :
           Index_addItem(f.category, f.dishName, f.description, f.price)
    \/ \E id \in Ids : Index_removeItem(id)
    \/ Tick

SpecIndex == InitIndex /\ [][NextIndex]_vars

-----------------------------------------------------------------------------
(* The persisted Home screen, started on a store left by earlier sessions  *)
(* of the Add Menu screen: items with trimmed names and two-digit prices.  *)

\* the prices of the items the Home screen finds stored
HomePrices == { << "0", ".", "0", "0" >>, << "0", ".", "0", "3" >> }

InitHome ==
    InitScreen("home",
               {NoBlob} \cup {Stringify(c) :
                   c \in StoredCollections({"Starter", "Main"}, HomePrices, MaxHome)})

NextHome ==
    \/ LoadItems("home")
    \/ LoadFail("home")
    \/ \E id \in Ids : removeItem("home", id)
    \/ \E i \in 1..MaxInFlight : WriteDone(i)
    \/ \E i \in 1..MaxInFlight : WriteFail(i)

SpecHome == InitHome /\ [][NextHome]_vars

-----------------------------------------------------------------------------
(* The two persisted screens in one session that starts on an empty store: *)
(* the Add Menu screen is shown first, the Home screen mounts later and    *)
(* loads the store then.                                                   *)

InitApp == InitScreen("addMenu", {NoBlob})

NextApp ==
    \/ Mount("home")
    \/ \E s \in PersistScreens : LoadItems(s)
    \/ \E f \in AppForms :
           AddMenu_addItem(f.category, f.dishName, f.description, f.price)
    \/ \E id \in Ids : removeItem("home", id)
    \/ \E i \in 1..MaxInFlight : WriteDone(i)
    \/ \E i \in 1..MaxInFlight : WriteFail(i)
    \/ Tick

SpecApp == InitApp /\ [][NextApp]_vars

-----------------------------------------------------------------------------
(* A persisted screen mounting on a store that holds anything: nothing, an *)
(* empty text, a collection, a cut or garbled text, or JSON of another     *)
(* shape.                                                                  *)

Blob(text) == [key |-> STORAGE_KEY, present |-> TRUE, json |-> text]

\* what an earlier session stored for one item
OneItemText == JSONStringify(<< StoredItem(1, "Main", FixedPrice[Txt30]) >>)

\* texts that JSON.parse rejects: a cut blob, a blob without its last
\* character, garbled text, a dangling comma
BrokenTexts ==
    { SubSeq(OneItemText, 1, Len(OneItemText) \div 2),
      SubSeq(OneItemText, 1, Len(OneItemText) - 1),
      << "a", "b", "c" >>,
      << "[", "1", ",", "]" >> }

\* texts that JSON.parse accepts and that are no array of items: an
\* object, a number, a string, null, true, an item outside an array, an
\* array of null and an array of an empty object
OtherShapeTexts ==
    { << "{", "}" >>, << "5" >>, << Quote, "a", Quote >>,
      << "n", "u", "l", "l" >>, << "t", "r", "u", "e" >>,
      SubSeq(OneItemText, 2, Len(OneItemText) - 1),
      << "[", "n", "u", "l", "l", "]" >>, << "[", "{", "}", "]" >> }

LoadBlobs ==
    {NoBlob, Blob(<< >>), Blob(JSONStringify(<< >>)), Blob(OneItemText)}
        \cup {Blob(t) : t \in BrokenTexts \cup OtherShapeTexts}

InitLoad == \E s0 \in PersistScreens : InitScreen(s0, LoadBlobs)

NextLoad ==
    \/ \E s \in PersistScreens : LoadItems(s)
    \/ \E s \in PersistScreens : LoadFail(s)
    \/ \E f \in ValidForms \cup BadPriceForms :
           AddMenu_addItem(f.category, f.dishName, f.description, f.price)
    \/ \E s \in PersistScreens, id \in Ids : removeItem(s, id)
    \/ \E i \in 1..MaxInFlight : WriteDone(i)
    \/ \E i \in 1..MaxInFlight : WriteFail(i)
    \/ Tick

SpecLoad == InitLoad /\ [][NextLoad]_vars

-----------------------------------------------------------------------------
(* The Home screen and the Add Menu screen pushed over it, both mounted    *)
(* and their loads settled on the same store: items are added on the Add   *)
(* Menu screen, and removed on the Home screen by the button of an item it *)
(* shows.                                                                  *)

InitBoth ==
    /\ \E c \in StoredCollections({"Starter", "Main"}, {FixedPrice[Txt30]}, MaxStored) :
          /\ menuItems = [s \in Screens |-> IF s \in PersistScreens THEN c ELSE << >>]
          /\ storage   = Stringify(c)
    /\ error     = [s \in Screens |-> NoError]
    /\ mounted   = [s \in Screens |-> s \in PersistScreens]
    /\ load      = [s \in Screens |-> IF s \in PersistScreens THEN LoadDone ELSE LoadIdle]
    /\ writes    = << >>
    /\ persisted = "none"
    /\ clock     = StartClock
    /\ averages  = Rendered(menuItems)
    /\ thrown    = [s \in Screens |-> FALSE]
    /\ last      = NoLast

NextBoth ==
    \/ \E f \in ValidForms :
           AddMenu_addItem(f.category, f.dishName, f.description, f.price)
    \/ \E i \in DOMAIN menuItems["home"] : removeItem("home", menuItems["home"][i].id)
    \/ \E i \in 1..MaxInFlight : WriteDone(i)
    \/ \E i \in 1..MaxInFlight : WriteFail(i)
    \/ Tick

SpecBoth == InitBoth /\ [][NextBoth]_vars

-----------------------------------------------------------------------------
(* Properties.                                                             *)

InSeq(q, x) == \E i \in 1..Len(q) : q[i] = x

\* a text that is empty or made of white space only
IsBlank(t) == \A i \in 1..Len(t) : t[i] \in WhiteSpace

\* a text that writes a finite decimal number that is not negative:
\* digits with at most one point among them
DenotesPrice(t) ==
    LET u == SelectSeq(t, LAMBDA ch : ch \notin WhiteSpace)
    IN  /\ \A i \in 1..Len(u) : u[i] \in DigitSet \cup {"."}
        /\ \E i \in 1..Len(u) : u[i] \in DigitSet
        /\ Cardinality({i \in 1..Len(u) : u[i] = "."}) <= 1

\* the items a valid call of addItem creates
ValidItems ==
    {NewItem(id, f.category, Trim(f.dishName), Trim(f.description),
             FixedPrice[f.price]) : id \in Ids, f \in ValidForms}

\* C1: a call of addItem with a name and a description that are not blank
\* and a price that parses to a finite number >= 0 succeeds, appends exactly
\* one item at the end with every earlier item in place, the items of its
\* category include it, and it stays in the collection until removeItem is
\* called with its id (or the screen goes away).
C1_AddedStaysUntilRemoved ==
    [][ /\ \A f \in ValidForms :
              AddMenu_addItem(f.category, f.dishName, f.description, f.price)
              => /\ error'["addMenu"] = NoError
                 /\ Len(menuItems'["addMenu"]) = Len(menuItems["addMenu"]) + 1
                 /\ SubSeq(menuItems'["addMenu"], 1, Len(menuItems["addMenu"]))
                        = menuItems["addMenu"]
                 /\ InSeq(FilterCategory(menuItems'["addMenu"], f.category),
                          menuItems'["addMenu"][Len(menuItems'["addMenu"])])
        /\ \A it \in ValidItems :
              /\ InSeq(FilterCategory(menuItems["addMenu"], it.category), it)
              /\ ~InSeq(FilterCategory(menuItems'["addMenu"], it.category), it)
              => \/ last'.op = "removeItem" /\ last'.id = it.id
                 \/ last'.op = "unmount"
      ]_vars

\* C2: in every reachable state no two items of a collection have the same
\* id.
C2_IdsUnique ==
    \A s \in Screens : \A i, j \in 1..Len(menuItems[s]) :
        i # j => menuItems[s][i].id # menuItems[s][j].id

\* C3: a call of addItem with a blank name, description or price fails with
\* MissingFields and leaves the size of the collection as it was.
C3_BlankIsMissingFields ==
    [][ \A f \in Forms :
          /\ IsBlank(f.dishName) \/ IsBlank(f.description) \/ IsBlank(f.price)
          /\ Index_addItem(f.category, f.dishName, f.description, f.price)
          => /\ error'["index"] = MissingFields
             /\ Len(menuItems'["index"]) = Len(menuItems["index"])
      ]_vars

\* C4: a call of addItem with a name and a description that are not blank
\* and a price that is not blank and does not write a finite number >= 0
\* fails with InvalidPrice and adds nothing.
C4_BadPriceIsInvalidPrice ==
    [][ \A f \in Forms :
          /\ ~IsBlank(f.dishName) /\ ~IsBlank(f.description)
          /\ ~IsBlank(f.price) /\ ~DenotesPrice(f.price)
          /\ AddMenu_addItem(f.category, f.dishName, f.description, f.price)
          => /\ error'["addMenu"] = InvalidPrice
             /\ menuItems'["addMenu"] = menuItems["addMenu"]
      ]_vars

\* C5: a call of addItem that fails validation leaves the collection exactly
\* as it was and issues no storage write.
C5_FailedAddChangesNothing ==
    [][ /\ last'.op = "addItem" /\ last'.screen = "addMenu"
        /\ error'["addMenu"] \in {MissingFields, InvalidPrice}
        => /\ menuItems' = menuItems
           /\ writes' = writes
           /\ storage' = storage
      ]_vars

\* a failed call of addItem on a collection that holds an item
C5_Witness ==
    /\ last.op = "addItem" /\ last.screen = "addMenu"
    /\ error["addMenu"] = InvalidPrice
    /\ Len(menuItems["addMenu"]) > 0

\* the price text t reads as a finite number that is not negative
PriceOK(t) ==
    LET v == PriceValue(t) IN v.kind = "fin" /\ ~IsNegative(v)

\* C6: in every reachable state every item of a collection has a name and a
\* description that are not blank and a price that is a finite number >= 0.
C6_ItemsValid ==
    \A s \in Screens : \A i \in 1..Len(menuItems[s]) :
        /\ ~IsBlank(menuItems[s][i].dishName)
        /\ ~IsBlank(menuItems[s][i].description)
        /\ PriceOK(menuItems[s][i].price)

\* C7: removeItem with an id that no item has leaves the collection and the
\* error as they were, and after removeItem(id) a second removeItem(id)
\* would give the same collection.
C7_RemoveAbsentIsNoOp ==
    [][ last'.op = "removeItem" /\ last'.screen = "home"
        => /\ (\A i \in 1..Len(menuItems["home"]) :
                   menuItems["home"][i].id # last'.id)
              => menuItems' = menuItems /\ error' = error
           /\ FilterNotId(menuItems'["home"], last'.id) = menuItems'["home"]
      ]_vars

\* removeItem was called with an id no item has, on a collection with items
C7_Witness ==
    /\ last.op = "removeItem" /\ last.screen = "home"
    /\ last.n > 0 /\ Len(menuItems["home"]) = last.n

\* the positions of the items of category c in items
PositionsOf(items, c) == {i \in 1..Len(items) : items[i].category = c}

\* the k-th smallest member of the set of positions P
NthOf(P, k) == CHOOSE i \in P : Cardinality({j \in P : j <= i}) = k

\* C8: the items shown for a category are exactly the items of the
\* collection with that category, each once, in the order of the collection.
C8_FilterExact ==
    \A c \in CategorySet :
        LET items == menuItems["home"]
            r     == filteredItems("home", c)
            P     == PositionsOf(items, c)
        IN  /\ Len(r) = Cardinality(P)
            /\ \A k \in 1..Len(r) : r[k] = items[NthOf(P, k)]

\* a collection of two items of which the filter keeps one
C8_Witness ==
    /\ Len(menuItems["home"]) = 2
    /\ Len(filteredItems("home", "Main")) = 1
    /\ menuItems["home"][2].category = "Main"

\* C9: the average shown for a category is the no-data text exactly when the
\* category has no item, and the no-data text is no rendering of a number.
C9_EmptyIsNoData ==
    /\ \A c \in CategorySet :
           averages[c] = EmDash <=> PositionsOf(menuItems["home"], c) = {}
    /\ EmDash # << "R" >> \o ToFixed2(Zero)
    /\ EmDash[1] # "R"

\* one category with items and one without
C9_Witness ==
    /\ PositionsOf(menuItems["home"], "Main") # {}
    /\ PositionsOf(menuItems["home"], "Starter") = {}
    /\ averages["Starter"] = EmDash

\* the price text t, of the form digits.dd, in cents
Cents(t) == DecVal(SelectSeq(t, LAMBDA ch : ch \in DigitSet))

\* n cents written with two decimals
CentsText(n) ==
    LET d == IntToString(n)
        dd == IF Len(d) < 3 THEN [i \in 1..(3 - Len(d)) |-> "0"] \o d ELSE d
    IN  SubSeq(dd, 1, Len(dd) - 2) \o << "." >> \o SubSeq(dd, Len(dd) - 1, Len(dd))

RECURSIVE SumCents(_, _)
SumCents(items, P) ==
    IF P = {} THEN 0
    ELSE LET i == CHOOSE j \in P : TRUE
         IN  Cents(items[i].price) + SumCents(items, P \ {i})

\* the mean of the prices at the positions P, rounded to the nearest cent,
\* a half rounding up
MeanCents(items, P) ==
    (2 * SumCents(items, P) + Cardinality(P)) \div (2 * Cardinality(P))

\* C10: the average shown for a category with items is the sum of the prices
\* of exactly its items over their count, rounded to two decimals.
C10_MeanRounded ==
    \A c \in CategorySet :
        LET P == PositionsOf(menuItems["home"], c)
        IN  P # {} =>
              averages[c] = << "R" >> \o CentsText(MeanCents(menuItems["home"], P))

\* the parse r of a blob gives a fresh store the collection items
RestoresParsed(r, items) ==
    r.ok /\ Filterable(r.v) /\ ItemsOf(r.v) = items

Restores(blob, items) == RestoresParsed(ParseJSON(blob.json), items)

\* C11: the blob every saveItems hands to the store restores, in a fresh
\* store, the collection that was saved; and a screen that mounts on the
\* blob another screen persisted from its collection loads an equal
\* collection: the same items in the same order with the same id, category,
\* dishName, description and price.
C11_RoundTrip ==
    [][ /\ Len(writes') > Len(writes)
           => Restores(writes'[Len(writes')].payload,
                       menuItems'[writes'[Len(writes')].by])
        /\ \A s, t \in PersistScreens :
              /\ s # t /\ mounted[t] /\ LoadItems(s)
              /\ load[s].raw = Stringify(menuItems[t])
              => menuItems'[s] = menuItems[t] /\ ~thrown'[s]
      ]_vars

\* the Home screen mounted after the Add Menu screen persisted an item made
\* in this session, with a quote and a backslash in its name, and loaded it
C11_Witness ==
    /\ load["home"].st = "done" /\ ~thrown["home"]
    /\ menuItems["home"] = menuItems["addMenu"]
    /\ storage = Stringify(menuItems["home"])
    /\ \E i \in 1..Len(menuItems["home"]) :
          /\ menuItems["home"][i].dishName = TxtQuoted
          /\ menuItems["home"][i].description = TxtLines

\* the blob a getItem read holds nothing a collection can be restored
\* from: it is absent, empty, or no JSON text
Unparsable(raw) ==
    ~raw.present \/ raw.json = << >> \/ ~ParseJSON(raw.json).ok

\* screen s takes a call of removeItem and, where it has one, of addItem:
\* its handlers run (removeItem unless the model's bound on the persists in
\* flight is reached; addItem here with a form it answers at once)
Accepts(s) ==
    /\ mounted[s] /\ ~thrown[s]
    /\ Len(writes) < MaxInFlight
       => ENABLED removeItem(s, IntToString(0))
    /\ s = "addMenu"
       => \A f \in BlankForms :
             ENABLED AddMenu_addItem(f.category, f.dishName, f.description, f.price)

\* C12: when the getItem of a mounting screen fails, or resolves with no
\* blob, an empty text or a text that is no JSON, the load ends, the
\* collection holds nothing from the store (it is empty unless items were
\* added meanwhile), no error is shown or thrown, and the screen takes
\* addItem and removeItem afterwards.
C12_BadBlobLoadsEmpty ==
    [][ \A s \in PersistScreens :
          LoadFail(s) \/ (LoadItems(s) /\ Unparsable(load[s].raw))
          => /\ load'[s].st = "done"
             /\ menuItems'[s] = menuItems[s]
             /\ error' = error /\ ~thrown'[s]
             /\ Accepts(s)'
      ]_vars

\* the load of a screen has just ended on a text that JSON.parse rejects,
\* and the collection of the screen is empty
C12_Witness ==
    \E s \in PersistScreens :
        /\ last.op = "load" /\ last.screen = s /\ load[s].st = "done"
        /\ storage \in {Blob(t) : t \in BrokenTexts}
        /\ menuItems[s] = << >> /\ ~thrown[s]

\* the blob parses and is no array of items: r is its parse
OtherShapeParsed(r) ==
    r.ok /\ ~(/\ r.v.t = "array"
              /\ \A i \in 1..Len(r.v.a) :
                    /\ r.v.a[i].t = "object"
                    /\ \A k \in {TxtId, TxtCategory, TxtDishName,
                                  TxtDescription, TxtPrice} :
                          Property(r.v.a[i], k) # Undefined)

OtherShape(raw) ==
    raw.present /\ raw.json # << >> /\ OtherShapeParsed(ParseJSON(raw.json))

\* C13: when the stored text parses and is no array of items, the load
\* leaves the collection as it would for an absent blob (empty, unless
\* items were added meanwhile) and the lists and averages still render.
C13_OtherShapeLoadsEmpty ==
    [][ \A s \in PersistScreens :
          LoadItems(s) /\ OtherShape(load[s].raw)
          => menuItems'[s] = menuItems[s] /\ ~thrown'[s]
      ]_vars

\* the items the two calls of the scenario create
IsSteak(it) ==
    /\ it.category = "Main" /\ it.dishName = TxtSteak
    /\ it.description = TxtGrilled
    /\ it.price = << "1", "2", "0", ".", "0", "0" >>

IsSoup(it) ==
    /\ it.category = "Main" /\ it.dishName = TxtSoup
    /\ it.description = TxtHotSoup
    /\ it.price = << "3", "0", ".", "0", "0" >>

\* C14: from an empty store, addItem(Main, "Steak", "Grilled", "120")
\* succeeds and the item is among the Main items with price "120.00"; with
\* "Soup" added by addItem(Main, "Soup", "Hot soup", "30") the Main average
\* the Home screen shows is 75.00; and after removeItem with the id of the
\* steak it is 30.00.
C14_Scenario ==
    [][ /\ AddMenu_addItem(SteakForm.category, SteakForm.dishName,
                           SteakForm.description, SteakForm.price)
           => /\ error'["addMenu"] = NoError
              /\ \E i \in 1..Len(filteredItems("addMenu", "Main")') :
                    /\ IsSteak(filteredItems("addMenu", "Main")'[i])
                    /\ filteredItems("addMenu", "Main")'[i].id = last'.id
        /\ /\ Len(menuItems'["home"]) = 2
           /\ IsSteak(menuItems'["home"][1]) /\ IsSoup(menuItems'["home"][2])
           => averages'["Main"] = << "R", "7", "5", ".", "0", "0" >>
        /\ /\ Len(menuItems["home"]) = 2
           /\ IsSteak(menuItems["home"][1]) /\ IsSoup(menuItems["home"][2])
           /\ removeItem("home", menuItems["home"][1].id)
           => averages'["Main"] = << "R", "3", "0", ".", "0", "0" >>
      ]_vars

\* C15: on every screen, a call of addItem that succeeds and a call of
\* removeItem update the collection and issue one persist, whose payload is
\* the whole collection as the call left it.
C15_MutationPersists ==
    [][ \A s \in Screens :
          /\ last'.screen = s
          /\ \/ last'.op = "addItem" /\ error'[s] = NoError
             \/ last'.op = "removeItem"
          => /\ Len(writes') = Len(writes) + 1
             /\ SubSeq(writes', 1, Len(writes)) = writes
             /\ writes'[Len(writes')].payload = Stringify(menuItems'[s])
      ]_vars

\* C16: when a persist fails, the collection stays as the mutations left
\* it, no error is shown or thrown, the store keeps what it held, and the
\* screen that issued the persist takes addItem and removeItem afterwards.
C16_FailedPersistKeepsState ==
    [][ \A i \in 1..MaxInFlight : \A s \in PersistScreens :
          WriteFail(i) /\ s = writes[i].by
          => /\ menuItems' = menuItems /\ averages' = averages
             /\ error' = error /\ thrown' = thrown
             /\ storage' = storage
             /\ Accepts(s)'
      ]_vars

\* the persist issued last has failed, and the collection holds an item the
\* store does not
C16_Witness ==
    /\ persisted = "failed" /\ writes = << >>
    /\ Len(menuItems["addMenu"]) > 0
    /\ storage # Stringify(menuItems["addMenu"])
    /\ Restores(storage, << >>)

\* C17: addItem looks for missing fields before it looks at the price: a
\* call with a blank name or description and a price that is no number
\* reports MissingFields, and every call that adds nothing reports exactly
\* one of MissingFields and InvalidPrice.
C17_MissingFieldsFirst ==
    [][ \A f \in Forms :
          AddMenu_addItem(f.category, f.dishName, f.description, f.price)
          => /\ /\ IsBlank(f.dishName) \/ IsBlank(f.description)
                /\ ~IsBlank(f.price) /\ ~DenotesPrice(f.price)
                => error'["addMenu"] = MissingFields
             /\ menuItems'["addMenu"] = menuItems["addMenu"]
                => /\ error'["addMenu"] \in {MissingFields, InvalidPrice}
                   /\ error'["addMenu"] = MissingFields
                      <=> \/ IsBlank(f.dishName) \/ IsBlank(f.description)
                          \/ IsBlank(f.price)
      ]_vars

\* a call with a blank name and the price "abc" has reported MissingFields
C17_Witness ==
    /\ last.op = "addItem" /\ last.screen = "addMenu"
    /\ IsBlank(last.form.dishName)
    /\ ~IsBlank(last.form.price) /\ ~DenotesPrice(last.form.price)
    /\ error["addMenu"] = MissingFields

\* the price text t, digits with at most one point among them, in cents,
\* rounded to the nearest cent, a half rounding up
RoundedCents(t) ==
    LET u  == SelectSeq(t, LAMBDA ch : ch \notin WhiteSpace)
        n  == IF \E i \in 1..Len(u) : u[i] = "."
              THEN (CHOOSE i \in 1..Len(u) : u[i] = ".") - 1 ELSE Len(u)
        fp == SubSeq(u, n + 2, Len(u)) \o << "0", "0", "0" >>
    IN  100 * DecVal(SubSeq(u, 1, n)) + 10 * DigitVal(fp[1]) + DigitVal(fp[2])
        + (IF DigitVal(fp[3]) >= 5 THEN 1 ELSE 0)

\* a text of the form digits.dd, with or without a sign
TwoDecimals(t) ==
    LET u == IF t # << >> /\ t[1] = "-" THEN SubSeq(t, 2, Len(t)) ELSE t
    IN  /\ Len(u) >= 4 /\ u[Len(u) - 2] = "."
        /\ \A i \in 1..Len(u) : i # Len(u) - 2 => u[i] \in DigitSet

\* C18: the item a successful call of addItem creates has the category of
\* the call, the name and the description of the call without the white
\* space around them, and as price the price of the call rounded to the
\* nearest cent and written with exactly two decimals.
C18_CreatedItem ==
    [][ \A s \in AddScreens :
          /\ last'.op = "addItem" /\ last'.screen = s
          /\ last'.id # << >> /\ error'[s] = NoError
          => LET f  == last'.form
                 it == menuItems'[s][Len(menuItems'[s])]
             IN  /\ it.category = f.category
                 /\ it.dishName = Trim(f.dishName)
                 /\ it.description = Trim(f.description)
                 /\ TwoDecimals(it.price)
                 /\ DenotesPrice(f.price)
                    => it.price = CentsText(RoundedCents(f.price))
      ]_vars

\* C19: removeItem with an id that an item of the collection has takes
\* exactly one item out, the one with that id, and leaves the other items
\* as they were and in the order they had.
C19_RemovesExactlyOne ==
    [][ \A s \in Screens :
          /\ last'.op = "removeItem" /\ last'.screen = s
          /\ \E i \in 1..Len(menuItems[s]) : menuItems[s][i].id = last'.id
          => \E i \in 1..Len(menuItems[s]) :
                /\ menuItems[s][i].id = last'.id
                /\ menuItems'[s] = RemoveAt(menuItems[s], i)
      ]_vars

\* C20: in every state where no persist is in flight and the persist issued
\* last has succeeded, the store holds the text of the collection the
\* screen has in memory.
C20_DurabilityReconciles ==
    \A s \in PersistScreens :
        /\ mounted[s] /\ ~thrown[s]
        /\ writes = << >> /\ persisted = "ok"
        => storage = Stringify(menuItems[s])

\* C21: removeItem with an id that no item of the collection has starts no
\* write to the store.
C21_AbsentRemoveNoWrite ==
    [][ \A s \in PersistScreens :
          /\ last'.op = "removeItem" /\ last'.screen = s
          /\ \A i \in 1..Len(menuItems[s]) : menuItems[s][i].id # last'.id
          => writes' = writes
      ]_vars

\* every item the parse old of a blob gives is among the items the parse
\* new of another blob gives
KeepsStored(old, new) ==
    old.ok /\ Filterable(old.v)
    => /\ new.ok /\ Filterable(new.v)
       /\ \A i \in 1..Len(old.v.a) : InSeq(ItemsOf(new.v), ItemsOf(old.v)[i])

\* C22: an item of the collection of the Add Menu screen leaves it only by
\* removeItem with its id (or with the screen), the end of the load started
\* at mount included; and the blob persisted by an addItem that runs while
\* that load is in flight, before any other persist, holds every item the
\* store held.
C22_LoadKeepsAdded ==
    [][ /\ \A i \in 1..Len(menuItems["addMenu"]) :
              ~InSeq(menuItems'["addMenu"], menuItems["addMenu"][i])
              => \/ /\ last'.op = "removeItem" /\ last'.screen = "addMenu"
                    /\ last'.id = menuItems["addMenu"][i].id
                 \/ last'.op = "unmount" /\ last'.screen = "addMenu"
        /\ /\ last'.op = "addItem" /\ last'.screen = "addMenu"
           /\ last'.id # << >>
           /\ load["addMenu"].st = "pending" /\ persisted = "none"
           /\ storage.present
           => KeepsStored(ParseJSON(storage.json),
                          ParseJSON(writes'[Len(writes')].payload.json))
      ]_vars

\* the ids of the items added during the session
SessionIds == {IntToString(t) : t \in StartClock..(StartClock + MaxClock)}

\* the items a screen would load from the parse r of a blob
ItemsIn(r) == IF r.ok /\ Filterable(r.v) THEN ItemsOf(r.v) ELSE << >>

\* the items the blob holds
StoredItems(blob) ==
    IF blob.present /\ blob.json # << >> THEN ItemsIn(ParseJSON(blob.json))
    ELSE << >>

\* every item of old that is not in new is an item the Home screen loaded
\* and has removed since: its own collection, which loses items by
\* removeItem only, no longer has it
OnlyRemovedLost(old, new) ==
    \A i \in 1..Len(old) :
        ~InSeq(new, old[i])
        => old[i].id \notin SessionIds /\ ~InSeq(menuItems["home"], old[i])

\* C23: with both screens mounted on the same key, an item leaves the
\* stored blob only by a removeItem with its id; an item added on the Add
\* Menu screen stays stored when the Home screen removes another item and
\* persists its own collection.
C23_StoredOnlyLostByRemove ==
    [][ storage' # storage
        => OnlyRemovedLost(StoredItems(storage), StoredItems(storage'))
      ]_vars

TypeOK ==
    /\ \A s \in Screens : Len(menuItems[s]) <= MaxItems + MaxStored + MaxHome
    /\ Len(writes) <= MaxInFlight
    /\ clock \in StartClock..(StartClock + MaxClock)

====
